---- MODULE Spec2Model ----
(***************************************************************************)
(* DeepFinder: the directory scanner (search_files), the file catalog      *)
(* (build_virtual_files), the hashing scheduler (hash_handler), the        *)
(* grouping (search_eventual_duplicates) and the scheduler that drives     *)
(* them (search_engine_scheduler).                                         *)
(*                                                                         *)
(* Strings are sequences of byte values, so that base-name derivation,     *)
(* the '.' prefix test, the "{dir}/{name}" formatting and the byte-wise    *)
(* comparison of names are computed and not assumed.                       *)
(***************************************************************************)
EXTENDS Integers, Sequences, FiniteSets, TLC

VARIABLES matches, fs, config, num_cores, pc, result, file_paths, virtual_files,
          pass, workers, threads, join_i, updated_files, out_of_order, duplicates, results_file

vars == <<matches, fs, config, num_cores, pc, result, file_paths, virtual_files,
          pass, workers, threads, join_i, updated_files, out_of_order, duplicates, results_file>>

(***************************************************************************)
(* Bounds of the model.                                                    *)
(***************************************************************************)
\* Entries (files, directories, others) below the root of a scanned tree.
MaxEntries == 3

\* Depth of a scanned tree below its root.
MaxDepth == 2

\* Length of the path list handed to build_virtual_files.
MaxPaths == 3

\* Records handed to hash_handler.
MaxFiles == 3

\* Logical cores reported by num_cpus::get().
MaxCores == 2

\* Length of the algorithm list handed to hash_handler.
MaxAlgs == 2

(***************************************************************************)
(* Bytes and strings.                                                      *)
(***************************************************************************)
\* '/' of format!("{dir}/{name}") and of the path separator.
Slash == 47

\* '.' of name.starts_with('.').
Dot == 46

\* Bytes that never occur in valid UTF-8: OsStr::to_str() is None on them.
NonUtf8Bytes == {255}

\* "a", "b", ".h" and a name that is not valid UTF-8.
Names == {<<97>>, <<98>>, <<46, 104>>, <<255>>}

\* "/r", the search path of the scanned tree.
Root == <<47, 114>>

None == [some |-> FALSE]

Some(x) == [some |-> TRUE, val |-> x]

\* CliOutput::Standard, and the other values of the enum by kind and path.
Standard == [kind |-> "Standard", path |-> <<>>]

\* The ArgMatches of a command line without any argument.
NoArgs == [path |-> None, name |-> FALSE, hash_algorithm |-> None, hidden_files |-> FALSE, csv_display |-> FALSE, csv_output |-> None, json_display |-> FALSE, json_output |-> None, xml_display |-> FALSE, xml_output |-> None]

Min2(a, b) == IF a <= b THEN a ELSE b

\* usize::div_ceil
DivCeil(a, b) == (a + b - 1) \div b

\* OsStr::to_str: None unless the bytes are valid UTF-8.
ToStr(s) == IF \A i \in 1..Len(s) : s[i] \notin NonUtf8Bytes THEN Some(s) ELSE None

\* str::cmp: lexicographic on bytes; TRUE iff a < b.
StrLess(a, b) == \/ \E k \in 1..Min2(Len(a), Len(b)) : a[k] < b[k] /\ \A j \in 1..(k-1) : a[j] = b[j]
                 \/ Len(a) < Len(b) /\ \A j \in 1..Len(a) : a[j] = b[j]

\* The position of the last '/' of p at or before position i, 0 when there is none.
RECURSIVE LastSlashUpTo(_, _)
LastSlashUpTo(p, i) == IF i = 0 \/ p[i] = Slash THEN i ELSE LastSlashUpTo(p, i - 1)

LastSlash(p) == LastSlashUpTo(p, Len(p))

\* The path split at every '/'.
RECURSIVE SplitSlash(_)
SplitSlash(p) == LET i == LastSlash(p) IN IF i = 0 THEN <<p>> ELSE Append(SplitSlash(SubSeq(p, 1, i - 1)), SubSeq(p, i + 1, Len(p)))

\* Path::components without the root: empty components and "." are dropped,
\* except a "." that starts a relative path.
Components(p) == LET parts == SplitSlash(p) IN SelectSeq([i \in 1..Len(parts) |-> [c |-> parts[i], keep |-> parts[i] # <<>> /\ (parts[i] # <<Dot>> \/ i = 1)]], LAMBDA e : e.keep)

\* Path::file_name: the last component when it is a normal one; None for a
\* path with no component, or one ending in ".." or that is "." alone.
FileName(p) == LET cs == Components(p) last == cs[Len(cs)].c IN IF cs = <<>> \/ last \in {<<Dot>>, <<Dot, Dot>>} THEN None ELSE Some(last)

\* path.file_name().and_then(|n| n.to_str())
FileNameStr(p) == LET name == FileName(p) IN IF name.some THEN ToStr(name.val) ELSE None

\* Option::unwrap_or("")
UnwrapOrEmpty(o) == IF o.some THEN o.val ELSE <<>>

\* format!("{dir}/{name}"), and DirEntry::path() of entry `name` of `dir`.
Join(dir, name) == dir \o <<Slash>> \o name

(***************************************************************************)
(* The filesystem: fs maps each existing path to its metadata.             *)
(***************************************************************************)
Exists(p) == p \in DOMAIN fs

\* Path::is_dir
IsDir(p) == Exists(p) /\ fs[p].kind = "dir"

\* Path::is_file
IsFile(p) == Exists(p) /\ fs[p].kind = "file"

\* The entries of directory `dir`.
Children(dir) == {p \in DOMAIN fs : LET i == LastSlash(p) IN i > 0 /\ SubSeq(p, 1, i - 1) = dir}

\* fs::read_dir fails on a path that is no directory or cannot be listed.
ReadDirFails(dir) == ~(IsDir(dir) /\ fs[dir].listable)

\* Every order in which the entries S of a directory can be listed: read_dir
\* promises none, and the order may differ from one listing to the next.
\* A listing delivers every entry: an entry that read_dir yields as an Err is
\* dropped by entry.ok() and is as if absent from the directory.
RECURSIVE Listings(_)
Listings(S) == IF S = {} THEN {<<>>} ELSE UNION {{<<x>> \o l : l \in Listings(S \ {x})} : x \in S}

(***************************************************************************)
(* search_files                                                            *)
(***************************************************************************)
Ok(v) == [ok |-> TRUE, val |-> v]

Err(e) == [ok |-> FALSE, err |-> e]

HiddenFilterMut(path, include_hidden_files) == TRUE

\* The closure of .filter(): keeps the entry unless hidden files are excluded
\* and its name is valid UTF-8 and starts with '.'.
HiddenFilter(path, include_hidden_files) == LET name == FileNameStr(path) IN IF ~include_hidden_files /\ name.some THEN Head(name.val) # Dot ELSE TRUE

\* The key the comparator of sort_by compares: the base name, "" for a name that
\* is not valid UTF-8.
SortKey(path) == UnwrapOrEmpty(FileNameStr(path))

\* The first n elements of `s` in sorted order, each with its key. An element goes
\* after every element that does not compare greater: sort_by is stable.
RECURSIVE SortedPrefix(_, _)
SortedPrefix(s, n) == IF n = 0 THEN <<>> ELSE LET done == SortedPrefix(s, n - 1) k == Cardinality({i \in 1..Len(done) : ~StrLess(s[n].key, done[i].key)}) IN SubSeq(done, 1, k) \o <<s[n]>> \o SubSeq(done, k + 1, Len(done))

SortPathsMut(paths) == paths

\* paths.sort_by(..): by base name, "" standing for a name that is not UTF-8.
SortPaths(paths) == LET keyed == [i \in 1..Len(paths) |-> [path |-> paths[i], key |-> SortKey(paths[i])]] sorted == SortedPrefix(keyed, Len(paths)) IN [i \in 1..Len(paths) |-> sorted[i].path]

EmitFilesMut(paths) == SelectSeq(paths, LAMBDA p : ToStr(p).some)

\* The closure of the final filter_map: the entry's path when it is a regular file
\* and valid UTF-8.
EmitFiles(paths) == SelectSeq(paths, LAMBDA p : IsFile(p) /\ ToStr(p).some)

PropagateMut(sub, files) == Ok(files)

\* The `?` on a nested search_files: its error is returned at once.
Propagate(sub, files) == IF sub.ok THEN Ok(files \o sub.val) ELSE sub

\* search_files and its for loop are given as the set of results they can return,
\* one for each order in which the directories visited can be listed.
RECURSIVE search_files(_, _)
RECURSIVE WalkDirs(_, _, _, _, _)
\* The for loop over the sorted entries, from entry k on, `files` collected so far.
WalkDirs(dir, paths, k, files, include_hidden_files) ==
    IF k > Len(paths) THEN {Ok(files)}
    ELSE LET name == FileNameStr(paths[k])
         IN IF ~name.some THEN WalkDirs(dir, paths, k + 1, files, include_hidden_files)
            ELSE IF IsDir(paths[k])
                 THEN UNION {LET r == Propagate(sub, files)
                             IN IF r.ok THEN WalkDirs(dir, paths, k + 1, r.val, include_hidden_files) ELSE {r}
                             : sub \in search_files(Join(dir, name.val), include_hidden_files)}
                 ELSE WalkDirs(dir, paths, k + 1, files, include_hidden_files)

search_files(dir, include_hidden_files) ==
    IF ReadDirFails(dir) THEN {Err("UnableToReadDir")}
    ELSE UNION {LET paths == SortPaths(SelectSeq(listing, LAMBDA p : HiddenFilter(p, include_hidden_files)))
                IN {IF sub.ok THEN Ok(sub.val \o EmitFiles(paths)) ELSE sub : sub \in WalkDirs(dir, paths, 1, <<>>, include_hidden_files)}
                : listing \in Listings(Children(dir))}

(***************************************************************************)
(* build_virtual_files                                                     *)
(***************************************************************************)
\* get_file_size: the metadata's size, 0 when fs::metadata fails.
GetFileSize(file_path) == IF Exists(file_path) THEN fs[file_path].size ELSE 0

VirtualFileMut(name, path) == [name |-> name, size |-> GetFileSize(name), full_path |-> path, checksums |-> None]

\* One VirtualFile, its checksums absent.
VirtualFile(name, path) == [name |-> name, size |-> GetFileSize(path), full_path |-> path, checksums |-> None]

\* `None => continue`: the path has no base name.
SkipPath(path) == ~FileNameStr(path).some

RECURSIVE BuildFrom(_, _, _)
\* The for loop of build_virtual_files from path k on.
BuildFrom(paths, k, acc) ==
    IF k > Len(paths) THEN acc
    ELSE IF SkipPath(paths[k]) THEN BuildFrom(paths, k + 1, acc)
    ELSE BuildFrom(paths, k + 1, Append(acc, VirtualFile(FileNameStr(paths[k]).val, paths[k])))

build_virtual_files(paths) == BuildFrom(paths, 1, <<>>)

(***************************************************************************)
(* search_engine_scheduler: the scan and the catalog                       *)
(***************************************************************************)
hashVars == <<num_cores, pass, workers, threads, join_i, updated_files, out_of_order>>

groupVars == <<duplicates, results_file>>


\* let file_paths = search_files(..).map_err(DeepFinderError::SystemError)?;
Scan ==
    /\ pc = "scan"
    /\ \E r \in search_files(config.search_path, config.include_hidden_files) :
            IF r.ok
            THEN /\ file_paths' = r.val
                 /\ pc' = "build"
                 /\ result' = result
            ELSE /\ file_paths' = file_paths
                 /\ pc' = "failed"
                 /\ result' = r.err
    /\ UNCHANGED <<matches, fs, config, virtual_files, hashVars, groupVars>>

\* let mut virtual_files = build_virtual_files(&file_paths);
Build ==
    /\ pc = "build"
    /\ virtual_files' = build_virtual_files(file_paths)
    /\ pc' = "hash"
    /\ UNCHANGED <<matches, fs, config, result, file_paths, hashVars, groupVars>>

(***************************************************************************)
(* The hash engine, as hash_handler's workers see it.                      *)
(***************************************************************************)
DigestMut(hash, content) == <<hash, 0>>

\* The hex digest of a file's bytes under an algorithm: equal bytes give equal
\* digests, different bytes or algorithms different ones.
Digest(hash, content) == <<hash, content>>

\* The identifiers manage_hash matches.
SupportedAlgorithms == {"md5", "sha1", "sha224", "sha256", "sha384", "sha512", "sha3-224", "sha3-256", "sha3-384", "sha3-512", "blake2b-512", "blake2s-256", "whirlpool"}

\* What system::manage_hash(&file.full_path, &hash_algorithm) does in a worker. An
\* identifier outside the match gives Err(UnsupportedHashAlgorithm), which the
\* worker's `if let Some(hash)` takes as no digest; the file is not opened. A
\* file that is read yields its digest. For one that cannot be opened or read, the
\* worker's `if let Some(hash)` takes no digest, and hash_with_digest's unwrap()
\* panics: either can happen.
ManageHash(file, hash) == IF hash \notin SupportedAlgorithms THEN {[kind |-> "unsupported"]} ELSE IF Exists(file) /\ fs[file].kind = "file" /\ fs[file].readable THEN {[kind |-> "digest", val |-> Digest(hash, fs[file].content)]} ELSE {[kind |-> "none"], [kind |-> "panic"]}

\* VirtualFile::update_checksum: the digest is stored under the algorithm's
\* identifier, in a map created when absent.
update_checksum(file, hash, digest) == [file EXCEPT !.checksums = Some(IF file.checksums.some THEN (hash :> digest) @@ file.checksums.val ELSE (hash :> digest))]

HashFileMut(file, hash, outcome) == update_checksum(file, hash, IF outcome.kind = "digest" THEN outcome.val ELSE <<>>)

\* if let Some(hash) = manage_hash(..) { file.update_checksum(&hash_algorithm, hash); }
HashFile(file, hash, outcome) == IF outcome.kind = "digest" THEN update_checksum(file, hash, outcome.val) ELSE file

(***************************************************************************)
(* hash_handler                                                            *)
(***************************************************************************)
hash_algorithms == config.hash.val

chunk_sizeMut == Len(virtual_files) \div num_cores

\* let chunk_size = virtual_files.len().div_ceil(num_cores);
chunk_size == DivCeil(Len(virtual_files), num_cores)

\* let start = i * chunk_size;
ChunkStart(i) == i * chunk_size

\* let end = ((i + 1) * chunk_size).min(virtual_files.len());
ChunkEnd(i) == Min2((i + 1) * chunk_size, Len(virtual_files))

NoMoreChunksMut(i) == i >= num_cores \/ ChunkStart(i) > ChunkEnd(i)

\* The spawn loop ends: i has reached num_cores, or `if start >= end { break; }`.
NoMoreChunks(i) == i >= num_cores \/ ChunkStart(i) >= ChunkEnd(i)

\* virtual_files[start..end].to_vec(): the worker's own copy of the records.
ChunkFiles(start, end) == [k \in 1..(end - start) |-> virtual_files[start + k]]

\* updated_files.iter_mut().find(|f| f.full_path == file.full_path): the index of
\* the first match, 0 when there is none.
FindByPath(files, full_path) == LET hits == {k \in 1..Len(files) : files[k].full_path = full_path} IN IF hits = {} THEN 0 ELSE CHOOSE k \in hits : \A j \in hits : k <= j

\* checksums.get(hash_algorithm.as_str()).cloned().unwrap_or_default()
GetOrDefault(checksums, hash) == IF hash \in DOMAIN checksums THEN checksums[hash] ELSE <<>>

MergeFileMut(updated, file, hash) == <<file>> \o updated

\* The body of `for file in chunk`: a record already in updated_files gets the
\* chunk record's entry for the algorithm, a new one is pushed.
MergeFile(updated, file, hash) ==
    LET k == FindByPath(updated, file.full_path)
    IN IF k = 0 THEN Append(updated, file)
       ELSE IF file.checksums.some THEN [updated EXCEPT ![k] = update_checksum(updated[k], hash, GetOrDefault(file.checksums.val, hash))]
       ELSE updated

RECURSIVE MergeChunk(_, _, _, _)
MergeChunk(updated, chunk, k, hash) == IF k > Len(chunk) THEN updated ELSE MergeChunk(MergeFile(updated, chunk[k], hash), chunk, k + 1, hash)

scanVars == <<matches, fs, config, num_cores, file_paths>>

\* if let Some(hash_algorithms) = &config.hash { hash_handler(..)?; } and the entry
\* of hash_handler. With no algorithm the for loop is not entered and
\* *virtual_files = updated_files is reached at once.
HashEnter ==
    /\ pc = "hash"
    /\ IF ~config.hash.some
       THEN pc' = "group" /\ UNCHANGED <<virtual_files, pass, updated_files>>
       ELSE IF hash_algorithms = <<>>
            THEN pc' = "group" /\ virtual_files' = <<>> /\ UNCHANGED <<pass, updated_files>>
            ELSE pc' = "spawn" /\ pass' = 1 /\ updated_files' = <<>> /\ UNCHANGED virtual_files
    /\ UNCHANGED <<scanVars, out_of_order, result, workers, threads, join_i, groupVars>>

\* One iteration of `for i in 0..num_cores` that spawns: i is threads.len().
SpawnWorker ==
    /\ pc = "spawn"
    /\ ~NoMoreChunks(Len(threads))
    /\ LET start == ChunkStart(Len(threads))
           end == ChunkEnd(Len(threads))
       IN workers' = Append(workers, [pass |-> pass, hash |-> hash_algorithms[pass], start |-> start, end |-> end,
                                      chunk |-> ChunkFiles(start, end), next |-> 1, status |-> "running", joined |-> FALSE])
    /\ threads' = Append(threads, Len(workers) + 1)
    /\ UNCHANGED <<scanVars, out_of_order, pc, result, virtual_files, pass, join_i, updated_files, groupVars>>

\* The spawn loop is left and the join loop entered.
SpawnEnd ==
    /\ pc = "spawn"
    /\ NoMoreChunks(Len(threads))
    /\ pc' = "join"
    /\ join_i' = 1
    /\ UNCHANGED <<scanVars, out_of_order, result, virtual_files, pass, workers, threads, updated_files, groupVars>>

\* A worker hashes the next file of its chunk.
WorkerStep(w) ==
    /\ workers[w].status = "running"
    /\ workers[w].next <= Len(workers[w].chunk)
    /\ LET k == workers[w].next
           file == workers[w].chunk[k]
       IN \E outcome \in ManageHash(file.full_path, workers[w].hash) :
            workers' = IF outcome.kind = "panic"
                       THEN [workers EXCEPT ![w].status = "panicked"]
                       ELSE [workers EXCEPT ![w].chunk[k] = HashFile(file, workers[w].hash, outcome), ![w].next = k + 1]
    /\ UNCHANGED <<scanVars, out_of_order, pc, result, virtual_files, pass, threads, join_i, updated_files, groupVars>>

\* A worker returns its chunk: the thread ends. out_of_order records that some
\* worker has ended while one spawned before it in its pass was still running.
WorkerReturn(w) ==
    /\ workers[w].status = "running"
    /\ workers[w].next > Len(workers[w].chunk)
    /\ workers' = [workers EXCEPT ![w].status = "finished"]
    /\ out_of_order' = (out_of_order \/ \E v \in 1..(w - 1) : workers[v].pass = workers[w].pass /\ workers[v].status = "running")
    /\ UNCHANGED <<scanVars, pc, result, virtual_files, pass, threads, join_i, updated_files, groupVars>>

JoinReturnsMut(w) == TRUE

\* thread.join() blocks until the thread has ended.
JoinReturns(w) == workers[w].status # "running"

JoinResultMut(w) == Ok(workers[w].chunk)

\* thread.join().map_err(|_| ThreadError): the chunk the worker returned, or the
\* error when it panicked.
JoinResult(w) == IF workers[w].status = "panicked" THEN Err("ThreadError") ELSE Ok(workers[w].chunk)

\* One iteration of `for thread in threads`: the join, then the merge of the chunk;
\* a panicked worker makes hash_handler return ThreadError at once.
JoinWorker ==
    /\ pc = "join"
    /\ join_i <= Len(threads)
    /\ JoinReturns(threads[join_i])
    /\ LET w == threads[join_i]
           chunk == JoinResult(w)
       IN IF ~chunk.ok
          THEN /\ pc' = "failed"
               /\ result' = chunk.err
               /\ workers' = [workers EXCEPT ![w].joined = TRUE]
               /\ UNCHANGED <<join_i, updated_files>>
          ELSE /\ updated_files' = MergeChunk(updated_files, chunk.val, 1, hash_algorithms[pass])
               /\ workers' = [workers EXCEPT ![w].joined = TRUE]
               /\ join_i' = join_i + 1
               /\ UNCHANGED <<pc, result>>
    /\ UNCHANGED <<scanVars, out_of_order, virtual_files, pass, threads, groupVars>>

\* The join loop is done: the next algorithm, or *virtual_files = updated_files; Ok(())
PassEnd ==
    /\ pc = "join"
    /\ join_i > Len(threads)
    /\ IF pass < Len(hash_algorithms)
       THEN /\ pass' = pass + 1
            /\ threads' = <<>>
            /\ pc' = "spawn"
            /\ UNCHANGED virtual_files
       ELSE /\ virtual_files' = updated_files
            /\ pc' = "group"
            /\ UNCHANGED <<pass, threads>>
    /\ UNCHANGED <<scanVars, out_of_order, result, workers, join_i, updated_files, groupVars>>

(***************************************************************************)
(* search_eventual_duplicates                                              *)
(***************************************************************************)
\* checksums.iter(): a HashMap yields its entries in an order of its own, which
\* differs from one map to the next (each has its own hasher state).
IterOrders(checksums) == Listings(DOMAIN checksums)

RECURSIVE RenderKey(_, _, _)
\* .map(|(k, v)| format!("{k}:{v}")).collect::<Vec<_>>().join("|") over the entries
\* from the k-th of the iteration on.
RenderKey(checksums, order, k) == IF k > Len(order) THEN <<>> ELSE <<order[k], ":", checksums[order[k]]>> \o (IF k < Len(order) THEN <<"|">> ELSE <<>>) \o RenderKey(checksums, order, k + 1)

KeysMut(file, by_name) == {Some(file.full_path)}

\* let key = if config.enable_search_by_name { name } else if let Some(checksums) =
\* &file.checksums { the rendered entries } else { continue }: the keys the record
\* can get, None for `continue`.
Keys(file, by_name) == IF by_name THEN {Some(file.name)} ELSE IF file.checksums.some THEN {Some(RenderKey(file.checksums.val, order, 1)) : order \in IterOrders(file.checksums.val)} ELSE {None}

\* The DuplicateFile of or_insert_with.
NewGroup(file) == [paths |-> {}, name |-> file.name, checksums |-> file.checksums, nb_occurrences |-> 0, size |-> file.size]

AddToGroupMut(entry, file) == [entry EXCEPT !.paths = @ \cup {file.full_path}, !.nb_occurrences = 1]

\* entry.paths.insert(file.full_path.clone()); entry.nb_occurrences += 1;
AddToGroup(entry, file) == [entry EXCEPT !.paths = @ \cup {file.full_path}, !.nb_occurrences = @ + 1]

GroupFileMut(map, file, key) == (key :> AddToGroup([(IF key \in DOMAIN map THEN map[key] ELSE NewGroup(file)) EXCEPT !.size = file.size, !.checksums = file.checksums], file)) @@ map

\* map.entry(key).or_insert_with(..), then the insertion of the path.
GroupFile(map, file, key) == (key :> AddToGroup(IF key \in DOMAIN map THEN map[key] ELSE NewGroup(file), file)) @@ map

RECURSIVE FoldFiles(_, _, _, _)
\* `for file in virtual_files` from record k on: the maps it can end with.
FoldFiles(files, k, map, by_name) ==
    IF k > Len(files) THEN {map}
    ELSE UNION {FoldFiles(files, k + 1, IF key.some THEN GroupFile(map, files[k], key.val) ELSE map, by_name) : key \in Keys(files[k], by_name)}

\* map.into_values().collect(): the groups, in any order.
IntoValues(map) == {[i \in 1..Len(o) |-> map[o[i]]] : o \in Listings(DOMAIN map)}

\* The lists of groups search_eventual_duplicates(virtual_files, config) can return.
search_eventual_duplicates(files, cfg) == UNION {IntoValues(map) : map \in FoldFiles(files, 1, <<>>, cfg.enable_search_by_name)}

\* The two writeln! for one group: the line of the group, and the line of its
\* checksums when it has some.
ResultLines(d) == [line |-> <<d.name, d.size, d.paths, d.nb_occurrences>>, checksums_line |-> d.checksums]

\* let duplicates = search_eventual_duplicates(&virtual_files, config);
Group ==
    /\ pc = "group"
    /\ \E ds \in search_eventual_duplicates(virtual_files, config) : duplicates' = ds
    /\ pc' = "write"
    /\ UNCHANGED <<scanVars, out_of_order, result, virtual_files, pass, workers, threads, join_i, updated_files, results_file>>

\* File::create_new("deepfinder_results.txt").unwrap(), the writeln! of every
\* group, and Ok(()). create_new fails when the file exists, and unwrap() panics.
WriteResults ==
    /\ pc = "write"
    /\ IF results_file.some
       THEN pc' = "panicked" /\ UNCHANGED <<result, results_file>>
       ELSE /\ results_file' = Some([i \in 1..Len(duplicates) |-> ResultLines(duplicates[i])])
            /\ pc' = "done"
            /\ result' = "Ok"
    /\ UNCHANGED <<scanVars, out_of_order, virtual_files, pass, workers, threads, join_i, updated_files, duplicates>>

(***************************************************************************)
(* The scanned trees.                                                      *)
(***************************************************************************)
Depth(p) == Len(Components(p)) - Len(Components(Root))

Parent(p) == SubSeq(p, 1, LastSlash(p) - 1)

\* The sets of at most k paths below Root, each with its parent.
RECURSIVE TreeShapes(_)
TreeShapes(k) == IF k = 0 THEN {{}} ELSE LET prev == TreeShapes(k - 1) IN prev \cup UNION {{t \cup {Join(d, n)} : d \in {q \in t \cup {Root} : Depth(q) < MaxDepth}, n \in Names} : t \in prev}

FileNode(size, readable, content) == [kind |-> "file", listable |-> FALSE, readable |-> readable, size |-> size, content |-> content]

DirNode(listable) == [kind |-> "dir", listable |-> listable, readable |-> FALSE, size |-> 0, content |-> 0]

\* A socket, a device, a broken link: neither is_dir() nor is_file().
OtherNode == [kind |-> "other", listable |-> FALSE, readable |-> FALSE, size |-> 0, content |-> 0]

ScanNodes == {FileNode(1, TRUE, 1), DirNode(TRUE), DirNode(FALSE), OtherNode}

\* The trees below Root: an entry's parent is a directory that can be listed (what
\* lies below one that cannot is never seen by the program).
Trees == UNION {{f \in [t -> ScanNodes] : \A p \in t : Parent(p) = Root \/ f[Parent(p)] = DirNode(TRUE)} : t \in TreeShapes(MaxEntries)}

NoHash == /\ num_cores = 1
          /\ pass = 0
          /\ workers = <<>>
          /\ threads = <<>>
          /\ join_i = 0
          /\ updated_files = <<>>
          /\ out_of_order = FALSE

\* Nothing is grouped yet and the working directory has no results file.
NoGroups == /\ duplicates = <<>>
            /\ results_file = None

InitScan ==
    /\ \/ \E tree \in Trees : fs = tree @@ (Root :> DirNode(TRUE))
       \/ fs = (Root :> DirNode(FALSE))
    /\ \E hidden \in BOOLEAN : config = [search_path |-> Root, include_hidden_files |-> hidden, enable_search_by_name |-> TRUE, hash |-> None, output |-> Standard]
    /\ matches = NoArgs
    /\ pc = "scan"
    /\ result = "none"
    /\ file_paths = <<>>
    /\ virtual_files = <<>>
    /\ NoHash
    /\ NoGroups

NextScan == Scan \/ Build

SpecScan == InitScan /\ [][NextScan]_vars

(***************************************************************************)
(* What the claims about the scanner speak of, stated on the tree itself.  *)
(***************************************************************************)
BaseName(p) == SubSeq(p, LastSlash(p) + 1, Len(p))

\* The entry p and the directories between it and the root, the root excluded.
RECURSIVE Chain(_)
Chain(p) == IF p = Root \/ LastSlash(p) = 0 THEN {} ELSE {p} \cup Chain(Parent(p))

StartsWithDot(p) == BaseName(p)[1] = Dot

ValidUtf8(p) == \A i \in 1..Len(BaseName(p)) : BaseName(p)[i] \notin NonUtf8Bytes

RegularFiles == {p \in DOMAIN fs : fs[p].kind = "file"}

\* Hidden: the entry or a directory above it has a name starting with '.'.
Hidden(p) == \E q \in Chain(p) : StartsWithDot(q)

Utf8Path(p) == \A q \in Chain(p) : ValidUtf8(q)

NoDuplicates(s) == \A i, j \in 1..Len(s) : i # j => s[i] # s[j]

Range(s) == {s[i] : i \in 1..Len(s)}

ScanSucceeded == pc \in {"build", "hash"}

\* A directory the scan lists: the root, and every directory reached through
\* entries the scan keeps.
VisitedDir(d) == d = Root \/ (IsDir(d) /\ Utf8Path(d) /\ (config.include_hidden_files \/ ~Hidden(d)))

\* C1 as stated: a successful scan returns, once each, exactly the regular files of
\* the tree that are not hidden (all of them when hidden files are included).
C1_AllRegularFiles == ScanSucceeded => /\ NoDuplicates(file_paths)
                                       /\ Range(file_paths) = {p \in RegularFiles : config.include_hidden_files \/ ~Hidden(p)}

\* C1 amended: a successful scan returns, once each, exactly the regular files of
\* the tree that are not hidden (all of them when hidden files are included) and
\* whose name, and the name of every directory between them and the root, is valid
\* UTF-8; it returns no directory and no path that is not in the tree.
C1_Utf8RegularFiles == ScanSucceeded => /\ NoDuplicates(file_paths)
                                        /\ Range(file_paths) = {p \in RegularFiles : Utf8Path(p) /\ (config.include_hidden_files \/ ~Hidden(p))}

\* A successful scan that returned a file of a subdirectory and left out a
\* regular file whose name is not valid UTF-8.
C1_Witness == /\ ScanSucceeded
              /\ \E p \in Range(file_paths) : Depth(p) = 2
              /\ \E p \in RegularFiles : ~Hidden(p) /\ ~Utf8Path(p)

\* C2: without include_hidden no returned path has a name starting with '.' or
\* lies under a directory of the tree whose name starts with '.', at any depth;
\* with include_hidden the hidden files are returned.
C2_HiddenFilter == ScanSucceeded => /\ ~config.include_hidden_files => \A p \in Range(file_paths) : ~Hidden(p)
                                    /\ config.include_hidden_files => \A p \in RegularFiles : Hidden(p) /\ Utf8Path(p) => p \in Range(file_paths)

\* A scan without include_hidden of a tree with a hidden file at depth 2, next to a
\* file that is returned.
C2_Witness == /\ ScanSucceeded
              /\ ~config.include_hidden_files
              /\ \E p \in RegularFiles, q \in Range(file_paths) : Depth(p) = 2 /\ StartsWithDot(p) /\ ~StartsWithDot(Parent(p)) /\ Parent(q) = Parent(p)

\* C3: whatever the order in which each directory is listed, a scan of the same tree
\* returns what this scan returned, and the files of one directory come in ascending
\* order of their names.
C3_OrderIndependent == pc \in {"build", "failed"} => /\ \A r \in search_files(config.search_path, config.include_hidden_files) : IF pc = "failed" THEN ~r.ok ELSE r = Ok(file_paths)
                                      /\ \A i, j \in 1..Len(file_paths) : i < j /\ Parent(file_paths[i]) = Parent(file_paths[j]) => StrLess(BaseName(file_paths[i]), BaseName(file_paths[j]))

\* A scan that returned two files of one directory and a file of a subdirectory.
C3_Witness == /\ ScanSucceeded
              /\ \E i, j \in 1..Len(file_paths) : i # j /\ Parent(file_paths[i]) = Parent(file_paths[j])
              /\ \E i \in 1..Len(file_paths) : Depth(file_paths[i]) = 2

CatalogFs == (Root :> DirNode(TRUE)) @@ (<<47, 114, 47, 97>> :> FileNode(2, TRUE, 1)) @@ (<<47, 114, 47, 98>> :> FileNode(5, TRUE, 2)) @@ (<<47, 114, 47, 100>> :> [DirNode(TRUE) EXCEPT !.size = 3])

\* "/r/a", "/r/b", "/r/d", "/x/a" (missing), "/r/a/", "/r/b/.", "/", "", ".", "/r/..".
PathPool == {<<47, 114, 47, 97>>, <<47, 114, 47, 98>>, <<47, 114, 47, 100>>, <<47, 120, 47, 97>>, <<47, 114, 47, 97, 47>>, <<47, 114, 47, 98, 47, 46>>, <<47>>, <<>>, <<46>>, <<47, 114, 47, 46, 46>>}

PathLists == UNION {[1..n -> PathPool] : n \in 0..MaxPaths}

InitCatalog ==
    /\ fs = CatalogFs
    /\ config = [search_path |-> Root, include_hidden_files |-> FALSE, enable_search_by_name |-> TRUE, hash |-> None, output |-> Standard]
    /\ matches = NoArgs
    /\ pc = "build"
    /\ result = "none"
    /\ file_paths \in PathLists
    /\ virtual_files = <<>>
    /\ NoHash
    /\ NoGroups

NextCatalog == Build

SpecCatalog == InitCatalog /\ [][NextCatalog]_vars

\* What may follow a base name in a path: separators and "." components.
TrailingOnly(t) == \A k \in 1..Len(t) : /\ t[k] \in {Slash, Dot}
                                        /\ k = 1 => t[k] = Slash
                                        /\ t[k] = Dot => t[k - 1] = Slash /\ (k = Len(t) \/ t[k + 1] = Slash)

\* b is the base name of p: its last component that is neither "." nor "..".
IsBaseName(p, b) == /\ b \notin {<<>>, <<Dot>>, <<Dot, Dot>>}
                    /\ \A k \in 1..Len(b) : b[k] # Slash
                    /\ \E i \in 1..Len(p) : /\ i + Len(b) - 1 <= Len(p)
                                            /\ SubSeq(p, i, i + Len(b) - 1) = b
                                            /\ i = 1 \/ p[i - 1] = Slash
                                            /\ TrailingOnly(SubSeq(p, i + Len(b), Len(p)))

HasBaseName(p) == \E i, j \in 1..Len(p) : i <= j /\ IsBaseName(p, SubSeq(p, i, j))

\* C5: build_virtual_files returns no error and, in input order, one record for
\* each path that has a base name and none for the others: its name is the base
\* name, its full_path the path as given, its checksums absent, its size the
\* metadata's size, or 0 when there is no metadata.
C5_CatalogTotal == pc = "hash" =>
                      LET kept == SelectSeq(file_paths, HasBaseName)
                      IN /\ result = "none"
                         /\ Len(virtual_files) = Len(kept)
                         /\ \A i \in 1..Len(kept) : /\ virtual_files[i].full_path = kept[i]
                                                    /\ IsBaseName(kept[i], virtual_files[i].name)
                                                    /\ virtual_files[i].checksums = None
                                                    /\ virtual_files[i].size = IF kept[i] \in DOMAIN fs THEN fs[kept[i]].size ELSE 0

\* A catalog built from a path without base name, a missing file and a file that
\* has bytes.
C5_Witness == /\ pc = "hash"
              /\ Len(file_paths) = 3 /\ Len(virtual_files) = 2
              /\ \E i, j \in 1..2 : /\ virtual_files[i].size > 0
                                    /\ virtual_files[j].size = 0 /\ virtual_files[j].full_path \notin DOMAIN fs

(***************************************************************************)
(* hash_handler on the records of a directory of files.                    *)
(***************************************************************************)
\* "md5" and "sha1".
Algorithms == {"md5", "sha1"}

AlgorithmLists == UNION {[1..n -> Algorithms] : n \in 0..MaxAlgs}

\* "/r/a", "/r/b", "/r/c", ...: the k-th file of the directory.
HashPath(k) == Join(Root, <<96 + k>>)

\* The directory with n files, files k and k + 2 of equal bytes.
HashFs(n, readable) == [p \in {Root} \cup {HashPath(k) : k \in 1..n} |-> IF p = Root THEN DirNode(TRUE) ELSE LET k == CHOOSE k \in 1..n : p = HashPath(k) IN FileNode(k, readable[k], 1 + (k % 2))]

InitHash ==
    /\ \E n \in 0..MaxFiles : \E readable \in [1..n -> BOOLEAN] :
         /\ fs = HashFs(n, readable)
         /\ file_paths = [k \in 1..n |-> HashPath(k)]
         /\ virtual_files = build_virtual_files([k \in 1..n |-> HashPath(k)])
    /\ \E algs \in AlgorithmLists : config = [search_path |-> Root, include_hidden_files |-> FALSE, enable_search_by_name |-> FALSE, hash |-> Some(algs), output |-> Standard]
    /\ num_cores \in 1..MaxCores
    /\ matches = NoArgs
    /\ pc = "hash"
    /\ result = "none"
    /\ pass = 0
    /\ workers = <<>>
    /\ threads = <<>>
    /\ join_i = 0
    /\ updated_files = <<>>
    /\ out_of_order = FALSE
    /\ NoGroups

NextHash ==
    \/ HashEnter
    \/ SpawnWorker
    \/ SpawnEnd
    \/ \E w \in 1..Len(workers) : WorkerStep(w)
    \/ \E w \in 1..Len(workers) : WorkerReturn(w)
    \/ JoinWorker
    \/ PassEnd

SpecHash == InitHash /\ [][NextHash]_vars

\* The workers of the current pass, in spawn order.
PassWorkers == [k \in 1..Len(threads) |-> workers[threads[k]]]

Running == {w \in 1..Len(workers) : workers[w].status = "running"}

\* C6: the algorithms are taken in the order given, and a worker of a later pass
\* exists only when every worker of every earlier pass has ended and been joined.
C6_PassBarrier == \A v, w \in 1..Len(workers) :
                     /\ workers[w].hash = hash_algorithms[workers[w].pass]
                     /\ v < w => workers[v].pass <= workers[w].pass
                     /\ workers[v].pass < workers[w].pass => workers[v].status = "finished" /\ workers[v].joined

\* A worker of the second pass is running and the first pass had two workers.
C6_Witness == \E u, v, w \in 1..Len(workers) : u # v /\ workers[u].pass = 1 /\ workers[v].pass = 1 /\ workers[w].pass = 2 /\ workers[w].status = "running"

\* C7 as stated: when hash_handler has returned, with Ok or with an error, no worker
\* it spawned is still running.
C7_NoWorkerOutlivesCall == pc \in {"group", "failed"} => Running = {}

\* C8: every chunk [start, end) a worker is spawned for has 0 <= start < end <= n
\* and is not empty, and with no record there is no worker.
C8_ChunkBounds == /\ \A w \in 1..Len(workers) : /\ 0 <= workers[w].start
                                                 /\ workers[w].start < workers[w].end
                                                 /\ workers[w].end <= Len(virtual_files)
                                                 /\ Len(workers[w].chunk) > 0
                  /\ Len(virtual_files) = 0 => workers = <<>>

\* More records than cores: both workers are spawned, the last chunk the smaller.
C8_Witness == /\ pc = "join" /\ Len(threads) = num_cores /\ Len(virtual_files) > num_cores
              /\ Len(PassWorkers[1].chunk) > Len(PassWorkers[Len(threads)].chunk)

\* C9: the chunks of a pass are contiguous slices of the record list, one after the
\* other from record 0, at most C of them, each of ceil(n / C) records but the last,
\* which has at most as many; once all are spawned they cover the list, so that every
\* record is in the chunk of exactly one worker and no two workers hold the same one.
C9_ChunksPartition ==
    pc \in {"spawn", "join"} =>
        LET n == Len(virtual_files)
            size == CHOOSE c \in 0..n : c * num_cores >= n /\ (c = 0 \/ (c - 1) * num_cores < n)
        IN /\ Len(threads) <= num_cores
           /\ \A k \in 1..Len(threads) :
                /\ PassWorkers[k].pass = pass
                /\ PassWorkers[k].start = IF k = 1 THEN 0 ELSE PassWorkers[k - 1].end
                /\ k < Len(threads) => PassWorkers[k].end - PassWorkers[k].start = size
                /\ PassWorkers[k].end - PassWorkers[k].start \in 1..size
                /\ Len(PassWorkers[k].chunk) = PassWorkers[k].end - PassWorkers[k].start
                /\ \A j \in 1..Len(PassWorkers[k].chunk) : PassWorkers[k].chunk[j].full_path = virtual_files[PassWorkers[k].start + j].full_path
           /\ \A k, l \in 1..Len(threads) : k # l => \A i \in 1..Len(PassWorkers[k].chunk), j \in 1..Len(PassWorkers[l].chunk) : PassWorkers[k].chunk[i].full_path # PassWorkers[l].chunk[j].full_path
           /\ pc = "join" => \A i \in 1..n : Cardinality({k \in 1..Len(threads) : \E j \in 1..Len(PassWorkers[k].chunk) : PassWorkers[k].chunk[j].full_path = virtual_files[i].full_path}) = 1

\* Three records on two cores: two workers at work, on two records and on one.
C9_Witness == /\ pc = "join" /\ Len(virtual_files) = 3 /\ Len(threads) = 2
              /\ Len(PassWorkers[1].chunk) = 2 /\ Len(PassWorkers[2].chunk) = 1
              /\ PassWorkers[1].status = "running" /\ PassWorkers[2].status = "running"

HasEntry(file, hash) == file.checksums.some /\ hash \in DOMAIN file.checksums.val

\* C10: after hash_handler has returned Ok, a record has an entry for an algorithm
\* of the list exactly when its file could be read, the entry is the file's digest
\* under that algorithm, and there is no other entry.
C10_DigestEntries ==
    pc = "group" /\ config.hash.some =>
        \A i \in 1..Len(virtual_files) :
            LET file == virtual_files[i]
            IN /\ \A hash \in Range(hash_algorithms) :
                    /\ HasEntry(file, hash) <=> fs[file.full_path].readable
                    /\ HasEntry(file, hash) => file.checksums.val[hash] = Digest(hash, fs[file.full_path].content)
               /\ file.checksums.some => DOMAIN file.checksums.val \subseteq Range(hash_algorithms)

\* Two algorithms, a record with both digests and a record whose file could not
\* be read, which has none.
C10_Witness == /\ pc = "group" /\ config.hash.some /\ Cardinality(Range(hash_algorithms)) = 2
               /\ \E i, j \in 1..Len(virtual_files) : /\ \A hash \in Algorithms : HasEntry(virtual_files[i], hash)
                                                      /\ ~fs[virtual_files[j].full_path].readable
                                                      /\ ~virtual_files[j].checksums.some

\* The record list hash_handler was called with.
RecordsBefore == build_virtual_files(file_paths)

Panicked == {w \in 1..Len(workers) : workers[w].status = "panicked"}

\* C11: hash_handler never returns Ok once a worker has panicked; when it returns an
\* error the error is ThreadError; and from the panic on the caller's record list is
\* the list the call was made with, with no digest of this pass or of an earlier one,
\* and no later pass is started.
C11_PanicDiscardsAll ==
    /\ pc = "failed" => result = "ThreadError" /\ Panicked # {} /\ virtual_files = RecordsBefore
    /\ Panicked # {} => /\ pc # "group"
                        /\ virtual_files = RecordsBefore
                        /\ \A w \in Panicked : workers[w].pass = pass

\* ThreadError is returned in the second pass, after the first pass's digests were
\* merged into updated_files.
C11_Witness == /\ pc = "failed" /\ result = "ThreadError" /\ pass = 2
               /\ \E k \in 1..Len(updated_files) : HasEntry(updated_files[k], hash_algorithms[1])

\* C12 as stated: a file that cannot be opened or read makes no worker panic and
\* hash_handler never returns an error for it.
C12_ReadFailureAbsorbed == Panicked = {} /\ pc # "failed"

\* The record hash_handler leaves for a record it was called with: the digests of
\* the file's bytes under the algorithms of the list, when the file can be read.
ExpectedRecord(file) == LET algs == Range(hash_algorithms) \cap SupportedAlgorithms IN [file EXCEPT !.checksums = IF fs[file.full_path].readable /\ algs # {} THEN Some([a \in algs |-> Digest(a, fs[file.full_path].content)]) ELSE None]

\* C14: the list a successful hash_handler leaves is determined by the records, the
\* algorithms and the files alone: record i of the call's list with its digests, at
\* index i, whatever the order in which the workers ran and ended.
C14_InterleavingIndependent ==
    pc = "group" /\ config.hash.some /\ hash_algorithms # <<>> =>
        virtual_files = [i \in 1..Len(RecordsBefore) |-> ExpectedRecord(RecordsBefore[i])]

\* hash_handler has returned Ok after a pass in which a worker ended before one
\* spawned earlier.
C14_Witness == /\ pc = "group" /\ config.hash.some /\ Len(virtual_files) >= 2
               /\ out_of_order

(***************************************************************************)
(* search_eventual_duplicates on record lists of any shape.                *)
(***************************************************************************)
\* The longest record list handed to search_eventual_duplicates.
MaxRecords == 3

\* "/r/a", "/r/b" and "/r/d/a".
GroupPaths == {<<47, 114, 47, 97>>, <<47, 114, 47, 98>>, <<47, 114, 47, 100, 47, 97>>}

\* "/r" with "/r/a" (1 byte), "/r/b" (2 bytes), "/r/d" and "/r/d/a" (3 bytes).
GroupFs == (Root :> DirNode(TRUE)) @@ (<<47, 114, 47, 100>> :> DirNode(TRUE)) @@ (<<47, 114, 47, 97>> :> FileNode(1, TRUE, 1)) @@ (<<47, 114, 47, 98>> :> FileNode(2, TRUE, 1)) @@ (<<47, 114, 47, 100, 47, 97>> :> FileNode(3, TRUE, 1))

\* The record of a path: hashed = 0 leaves its checksums absent, hashed = c gives
\* it the digests of the bytes c under the algorithms algs.
GroupRecord(path, hashed, algs) == [VirtualFile(FileNameStr(path).val, path) EXCEPT !.checksums = IF hashed = 0 THEN None ELSE Some([a \in algs |-> Digest(a, hashed)])]

\* The algorithm sets of the records' checksum maps.
GroupAlgorithms == {{}, {"md5"}, {"md5", "sha1"}}

InitGroup ==
    /\ fs = GroupFs
    /\ \E by_name \in BOOLEAN : config = [search_path |-> Root, include_hidden_files |-> FALSE, enable_search_by_name |-> by_name, hash |-> None, output |-> Standard]
    /\ matches = NoArgs
    /\ pc = "group"
    /\ result = "none"
    /\ file_paths = <<>>
    /\ \E n \in 0..MaxRecords : \E algs \in GroupAlgorithms : \E paths \in [1..n -> GroupPaths] : \E hashed \in [1..n -> 0..2] :
          virtual_files = [k \in 1..n |-> GroupRecord(paths[k], hashed[k], algs)]
    /\ NoHash
    /\ duplicates = <<>>
    /\ results_file \in {None, Some(<<>>)}

NextGroup == Group \/ WriteResults

SpecGroup == InitGroup /\ [][NextGroup]_vars

(***************************************************************************)
(* search_engine_scheduler from end to end.                                *)
(***************************************************************************)
\* "/r/a", "/r/b", "/r/d" and "/r/d/a".
RunA == <<47, 114, 47, 97>>

RunB == <<47, 114, 47, 98>>

RunD == <<47, 114, 47, 100>>

RunDA == <<47, 114, 47, 100, 47, 97>>

\* A readable file of c bytes, all of value c: equal c, byte-identical files.
RunFile(c) == FileNode(c, TRUE, c)

\* The trees: "/r/a" and "/r/d/a" missing or readable, "/r/b" missing, readable or
\* not, and the directory "/r/d".
RunTrees == {(Root :> DirNode(TRUE)) @@ (RunD :> DirNode(TRUE)) @@ a @@ b @@ da : a \in {<<>>} \cup {RunA :> RunFile(c) : c \in 1..2}, b \in {<<>>, RunB :> FileNode(1, FALSE, 1)} \cup {RunB :> RunFile(c) : c \in 1..2}, da \in {<<>>, RunDA :> RunFile(1)}}

\* "md5", and "crc32", which manage_hash does not know.
RunAlgorithms == {"md5", "crc32"}

\* The configurations: by-name search is on when no algorithm is given.
RunConfigs == {[search_path |-> Root, include_hidden_files |-> FALSE, enable_search_by_name |-> TRUE, hash |-> None, output |-> Standard]} \cup {[search_path |-> Root, include_hidden_files |-> FALSE, enable_search_by_name |-> by_name, hash |-> Some(algs), output |-> Standard] : by_name \in BOOLEAN, algs \in UNION {[1..n -> RunAlgorithms] : n \in 1..MaxAlgs}}

InitRun ==
    /\ fs \in RunTrees
    /\ config \in RunConfigs
    /\ num_cores \in 1..MaxCores
    /\ matches = NoArgs
    /\ pc = "scan"
    /\ result = "none"
    /\ file_paths = <<>>
    /\ virtual_files = <<>>
    /\ pass = 0
    /\ workers = <<>>
    /\ threads = <<>>
    /\ join_i = 0
    /\ updated_files = <<>>
    /\ out_of_order = FALSE
    /\ duplicates = <<>>
    /\ results_file \in {None, Some(<<>>)}

NextRun ==
    \/ Scan
    \/ Build
    \/ HashEnter
    \/ SpawnWorker
    \/ SpawnEnd
    \/ \E w \in 1..Len(workers) : WorkerStep(w)
    \/ \E w \in 1..Len(workers) : WorkerReturn(w)
    \/ JoinWorker
    \/ PassEnd
    \/ Group
    \/ WriteResults

SpecRun == InitRun /\ [][NextRun]_vars

(***************************************************************************)
(* What the claims about the groups speak of.                              *)
(***************************************************************************)
\* search_eventual_duplicates has returned.
Grouped == pc \in {"write", "done", "panicked"}

\* The groups that hold the path of record i.
GroupsOf(i) == {g \in 1..Len(duplicates) : virtual_files[i].full_path \in duplicates[g].paths}

SameGroup(i, j) == GroupsOf(i) \cap GroupsOf(j) # {}

DistinctPaths == \A i, j \in 1..Len(virtual_files) : virtual_files[i].full_path = virtual_files[j].full_path => i = j

HasUnsupported == config.hash.some /\ \E k \in 1..Len(hash_algorithms) : hash_algorithms[k] \notin SupportedAlgorithms

\* C13 as stated: with an unsupported identifier anywhere in the list no worker is
\* spawned, and hash_handler does not return Ok.
C13_ValidatedUpFront == HasUnsupported => workers = <<>> /\ pc \notin {"group", "write", "done", "panicked"}

\* C15: by name, every record's path is in exactly one group, two records share a
\* group exactly when their names are equal, and no group is without a path.
C15_NamePartition ==
    Grouped /\ config.enable_search_by_name =>
        /\ \A i \in 1..Len(virtual_files) : Cardinality(GroupsOf(i)) = 1
        /\ \A i, j \in 1..Len(virtual_files) : SameGroup(i, j) <=> virtual_files[i].name = virtual_files[j].name
        /\ \A g \in 1..Len(duplicates) : duplicates[g].paths # {}

\* "/r/a" and "/r/d/a" are in one group, "/r/b" is in another.
C15_Witness == /\ Grouped /\ config.enable_search_by_name /\ DistinctPaths /\ Len(virtual_files) = 3
               /\ \E g, h \in 1..Len(duplicates) : duplicates[g].paths = {RunA, RunDA} /\ duplicates[h].paths = {RunB}

\* C16 as stated: by hash, two records (of a list of distinct paths) that both have
\* digests for md5 and sha1 share a group exactly when their checksum maps are equal.
C16_SortedKey ==
    Grouped /\ ~config.enable_search_by_name /\ DistinctPaths =>
        \A i, j \in 1..Len(virtual_files) :
            /\ virtual_files[i].checksums.some /\ DOMAIN virtual_files[i].checksums.val = {"md5", "sha1"}
            /\ virtual_files[j].checksums.some /\ DOMAIN virtual_files[j].checksums.val = {"md5", "sha1"}
            => (SameGroup(i, j) <=> virtual_files[i].checksums.val = virtual_files[j].checksums.val)

\* The files of the tree that can be read, and those of them with the bytes of p.
ReadableFiles == {p \in DOMAIN fs : fs[p].kind = "file" /\ fs[p].readable}

SameBytes(p) == {q \in ReadableFiles : fs[q].content = fs[p].content}

\* C17: a run with one supported algorithm and by-name search off puts every
\* readable file in exactly one group, whose paths are the readable files of the
\* same bytes, whose count is their number and whose checksums are the one entry
\* of the algorithm with their digest; so files of different digests share no group.
C17_IdenticalContentGrouped ==
    Grouped /\ ~config.enable_search_by_name /\ config.hash.some /\ Len(hash_algorithms) = 1 /\ ~HasUnsupported =>
        /\ \A p \in ReadableFiles :
              /\ Cardinality({g \in 1..Len(duplicates) : p \in duplicates[g].paths}) = 1
              /\ \A g \in 1..Len(duplicates) : p \in duplicates[g].paths =>
                    /\ duplicates[g].paths = SameBytes(p)
                    /\ duplicates[g].nb_occurrences = Cardinality(SameBytes(p))
                    /\ duplicates[g].checksums = Some(hash_algorithms[1] :> Digest(hash_algorithms[1], fs[p].content))
        /\ \A g \in 1..Len(duplicates) : \A p, q \in duplicates[g].paths : Digest(hash_algorithms[1], fs[p].content) = Digest(hash_algorithms[1], fs[q].content)

\* "/r/a" and "/r/d/a" have the same bytes and are one group of two, "/r/b" has
\* others and is in another group.
C17_Witness == /\ Grouped /\ ~config.enable_search_by_name /\ config.hash = Some(<<"md5">>)
               /\ RunB \in ReadableFiles /\ fs[RunB].content = 2
               /\ \E g, h \in 1..Len(duplicates) : duplicates[g].paths = {RunA, RunDA} /\ duplicates[g].nb_occurrences = 2 /\ duplicates[h].paths = {RunB}

C19_NoSingletonGroups == Grouped => \A g \in 1..Len(duplicates) : Cardinality(duplicates[g].paths) >= 2

C21_NoChecksumsByName == Grouped /\ config.enable_search_by_name => \A g \in 1..Len(duplicates) : ~duplicates[g].checksums.some

\* C22 as stated: no step of search_engine_scheduler creates or changes a file, and
\* none fails because of a file an earlier run left.
C22_NoFileWrites == [][results_file' = results_file /\ fs' = fs /\ pc' # "panicked"]_vars

\* The records with the name of group g, and the records whose path is in it.
NamedLike(g) == {i \in 1..Len(virtual_files) : virtual_files[i].name = duplicates[g].name}

MembersOf(g) == {i \in 1..Len(virtual_files) : virtual_files[i].full_path \in duplicates[g].paths}

First(I) == CHOOSE i \in I : \A j \in I : i <= j

\* C24: a group's name, size and checksums are those of the first record, in input
\* order, of the records folded into it, and its paths are the paths of all of them.
\* By name these are the records of the group's name, for every record list; by hash
\* they are told by their paths, for the lists of distinct paths.
C24_FirstRecordRepresents ==
    Grouped =>
        \A g \in 1..Len(duplicates) :
            /\ config.enable_search_by_name =>
                  /\ NamedLike(g) # {}
                  /\ duplicates[g].size = virtual_files[First(NamedLike(g))].size
                  /\ duplicates[g].checksums = virtual_files[First(NamedLike(g))].checksums
                  /\ duplicates[g].paths = {virtual_files[i].full_path : i \in NamedLike(g)}
            /\ ~config.enable_search_by_name /\ DistinctPaths =>
                  /\ MembersOf(g) # {}
                  /\ duplicates[g].name = virtual_files[First(MembersOf(g))].name
                  /\ duplicates[g].size = virtual_files[First(MembersOf(g))].size
                  /\ duplicates[g].checksums = virtual_files[First(MembersOf(g))].checksums
                  /\ \A i \in MembersOf(g) : virtual_files[i].checksums = duplicates[g].checksums

\* By name, "/r/d/a" comes first and "/r/a" second, with other sizes and digests:
\* the group of both has the size and the checksums of "/r/d/a".
C24_Witness == /\ Grouped /\ config.enable_search_by_name /\ Len(virtual_files) >= 2
               /\ virtual_files[1].full_path = RunDA /\ virtual_files[2].full_path = RunA
               /\ virtual_files[1].checksums.some /\ virtual_files[1].checksums # virtual_files[2].checksums
               /\ \E g \in 1..Len(duplicates) : duplicates[g].paths = {RunA, RunDA} /\ duplicates[g].size = virtual_files[1].size /\ duplicates[g].checksums = virtual_files[1].checksums

\* C25 as stated: after a successful hash_handler, whatever the algorithm list, the
\* list has the records it had before, in the same order, with the same full_path,
\* name and size, and entries only for algorithms of the list.
C25_RecordsKept ==
    pc = "group" /\ config.hash.some =>
        /\ Len(virtual_files) = Len(RecordsBefore)
        /\ \A i \in 1..Len(virtual_files) :
              /\ i <= Len(RecordsBefore)
              /\ virtual_files[i].full_path = RecordsBefore[i].full_path
              /\ virtual_files[i].name = RecordsBefore[i].name
              /\ virtual_files[i].size = RecordsBefore[i].size
              /\ virtual_files[i].checksums.some => DOMAIN virtual_files[i].checksums.val \subseteq Range(hash_algorithms)

(***************************************************************************)
(* parse_user_choices                                                      *)
(***************************************************************************)
Backslash == 92

\* Path::is_absolute
IsAbsolute(p) == Len(p) > 0 /\ p[1] = Slash

RECURSIVE TrimStartDotSlash(_)
\* path.trim_start_matches("./")
TrimStartDotSlash(p) == IF Len(p) >= 2 /\ p[1] = Dot /\ p[2] = Slash THEN TrimStartDotSlash(SubSeq(p, 3, Len(p))) ELSE p

\* std::env::current_dir(), here "/r".
CurrentDir == Root

\* build_full_path: a relative path is put below the current directory.
build_full_path(path) == IF ~IsAbsolute(path) THEN CurrentDir \o <<Slash>> \o TrimStartDotSlash(path) ELSE path

RECURSIVE JoinComponents(_, _)
\* The path of the first k components.
JoinComponents(cs, k) == IF k = 0 THEN <<>> ELSE JoinComponents(cs, k - 1) \o <<Slash>> \o cs[k].c

\* Path::exists on an absolute path: repeated and trailing '/' do not count, and a
\* path that ends in '/' must be a directory.
PathExists(p) == LET cs == Components(p) q == JoinComponents(cs, Len(cs)) IN IF q = <<>> THEN IsAbsolute(p) ELSE Exists(q) /\ (p[Len(p)] = Slash => IsDir(q))

\* is_valid_folder_path
is_valid_folder_path(path) == LET full_path == build_full_path(path) IN IF ~PathExists(full_path) THEN Err("InvalidFolder") ELSE Ok(full_path)

\* check_if_parent_folder_exists: Path::parent(..) exists.
check_if_parent_folder_exists(file_path) == LET cs == Components(file_path) IN Len(cs) > 0 /\ (Len(cs) = 1 \/ Exists(JoinComponents(cs, Len(cs) - 1)))

\* get_invalid_chars on unix: '/', '\0', '\r', '\n'.
InvalidChars == {Slash, 0, 13, 10}

\* is_valid_file_path, which check_output_arg hands on.
is_valid_file_path(path) ==
    LET filename == FileNameStr(path)
    IN IF ~filename.some THEN Err("InvalidPath")
       ELSE IF \E i \in 1..Len(filename.val) : filename.val[i] \in InvalidChars THEN Err("InvalidFilename")
       ELSE IF ~check_if_parent_folder_exists(build_full_path(path)) THEN Err("ParentFolderDoesntExist")
       ELSE Ok(build_full_path(path))

\* CliOutput::CsvFile(check_output_arg(path)?) and its like.
OutputFile(kind, path) == LET full_path == is_valid_file_path(path) IN IF full_path.ok THEN Ok([kind |-> kind, path |-> full_path.val]) ELSE full_path

\* let output = match (csv_display, csv_output, json_display, ..) { .. }
CliOutputOf(m) ==
    IF m.csv_display THEN Ok([kind |-> "CsvStdin", path |-> <<>>])
    ELSE IF m.csv_output.some THEN OutputFile("CsvFile", m.csv_output.val)
    ELSE IF m.json_display THEN Ok([kind |-> "JsonStdin", path |-> <<>>])
    ELSE IF m.json_output.some THEN OutputFile("JsonFile", m.json_output.val)
    ELSE IF m.xml_display THEN Ok([kind |-> "XmlStdin", path |-> <<>>])
    ELSE IF m.xml_output.some THEN OutputFile("XmlFile", m.xml_output.val)
    ELSE Ok(Standard)

RECURSIVE TrimEndSeparators(_)
\* .trim_end_matches(['/', '\\'])
TrimEndSeparators(p) == IF Len(p) > 0 /\ p[Len(p)] \in {Slash, Backslash} THEN TrimEndSeparators(SubSeq(p, 1, Len(p) - 1)) ELSE p

\* matches.get_one::<String>("path").ok_or(NoPathSpecified).and_then(is_valid_folder_path)
SearchPathOf(m) == IF ~m.path.some THEN Err("NoPathSpecified") ELSE is_valid_folder_path(m.path.val)

EnableSearchByNameMut(m) == m.name

\* matches.get_flag("name") || !matches.contains_id("hash_algorithm")
EnableSearchByName(m) == m.name \/ ~m.hash_algorithm.some

\* parse_user_choices: the FindingConfig, or the first error met.
parse_user_choices(m) ==
    LET search_path == SearchPathOf(m)
        output == CliOutputOf(m)
    IN IF ~search_path.ok THEN search_path
       ELSE IF ~output.ok THEN output
       ELSE Ok([search_path |-> TrimEndSeparators(search_path.val), include_hidden_files |-> m.hidden_files, enable_search_by_name |-> EnableSearchByName(m), hash |-> m.hash_algorithm, output |-> output.val])

\* run(): parse_user_choices(&matches), whose config search_engine_scheduler gets.
Parse ==
    /\ pc = "parse"
    /\ \E parsed \in {parse_user_choices(matches)} :
          IF parsed.ok
          THEN config' = parsed.val /\ pc' = "scan" /\ UNCHANGED result
          ELSE pc' = "failed" /\ result' = parsed.err /\ UNCHANGED config
    /\ UNCHANGED <<matches, fs, file_paths, virtual_files, hashVars, groupVars>>

\* No path, "/r", "/r/", "/r/d//", "/x" (missing), "d" and "./d".
CliPaths == {None, Some(Root), Some(<<47, 114, 47>>), Some(<<47, 114, 47, 100, 47, 47>>), Some(<<47, 120>>), Some(<<100>>), Some(<<46, 47, 100>>)}

\* The values of -a: one to MaxAlgs of "md5" and "sha256", in any order.
CliAlgorithmLists == UNION {[1..n -> {"md5", "sha256"}] : n \in 1..MaxAlgs}

\* The output arguments, of which the command line takes at most one: none, -c,
\* -C "/r/o", -C "/x/o" (no such folder), -j, -J "/r/o", -x, -X "/x/o".
CliOutputArgs == {NoArgs, [NoArgs EXCEPT !.csv_display = TRUE], [NoArgs EXCEPT !.csv_output = Some(<<47, 114, 47, 111>>)], [NoArgs EXCEPT !.csv_output = Some(<<47, 120, 47, 111>>)], [NoArgs EXCEPT !.json_display = TRUE], [NoArgs EXCEPT !.json_output = Some(<<47, 114, 47, 111>>)], [NoArgs EXCEPT !.xml_display = TRUE], [NoArgs EXCEPT !.xml_output = Some(<<47, 120, 47, 111>>)]}

\* The configuration before the command line is parsed: none yet.
Unparsed == [search_path |-> <<>>, include_hidden_files |-> FALSE, enable_search_by_name |-> FALSE, hash |-> None, output |-> Standard]

InitCli ==
    /\ \E out \in CliOutputArgs, path \in CliPaths, name \in BOOLEAN, hidden \in BOOLEAN, hash \in {None} \cup {Some(algs) : algs \in CliAlgorithmLists} :
          matches = [out EXCEPT !.path = path, !.name = name, !.hidden_files = hidden, !.hash_algorithm = hash]
    /\ fs = CatalogFs
    /\ config = Unparsed
    /\ pc = "parse"
    /\ result = "none"
    /\ file_paths = <<>>
    /\ virtual_files = <<>>
    /\ NoHash
    /\ NoGroups

NextCli == Parse

SpecCli == InitCli /\ [][NextCli]_vars

\* C23: the parsed configuration has enable_search_by_name true exactly when -n was
\* given or -a was not, and its hash list is the list given to -a, in that order
\* (none when -a was not given), -n given or not.
C23_ByNameDefault ==
    pc = "scan" =>
        /\ config.enable_search_by_name <=> (matches.name \/ ~matches.hash_algorithm.some)
        /\ matches.hash_algorithm.some => /\ config.hash.some
                                          /\ Len(config.hash.val) = Len(matches.hash_algorithm.val)
                                          /\ \A k \in 1..Len(config.hash.val) : config.hash.val[k] = matches.hash_algorithm.val[k]
        /\ ~matches.hash_algorithm.some => ~config.hash.some

\* "/r/ -n -a sha256,md5 -f -C /r/o" is parsed: by name, with both algorithms in
\* the order given.
C23_Witness == /\ pc = "scan" /\ matches.name /\ matches.hash_algorithm = Some(<<"sha256", "md5">>)
               /\ config.enable_search_by_name /\ config.hash = Some(<<"sha256", "md5">>)
               /\ config.search_path = Root /\ config.output.kind = "CsvFile"

====
